---- MODULE Spec2Model ----
\* Model of the cache_diff derive macro (cache_diff_derive) and of the
\* CacheDiff::diff routine it generates.
\*
\* Strings are sequences of one-character strings, so that str::replace,
\* format! and prefix tests are computed character by character.
\* A syn::Path is the sequence of its segment identifiers.
EXTENDS Integers, Sequences, FiniteSets, TLC

VARIABLES
    ast,            \* the DeriveInput handed to #[derive(CacheDiff)]
    bullet_stream,  \* whether cache_diff is built with feature "bullet_stream"
    pc,             \* "declared" | "expanded" | "called" | "parse" | "parsed"
    expansion,      \* what the proc macro produced for ast
    self,           \* receiver of the last diff call (one value per field)
    old,            \* argument of the last diff call
    differences,    \* Vec<String> returned by the last diff call
    compared,       \* field identifiers whose comparison self.f != old.f ran, in order
    input,          \* the syn::Attribute handed to CacheAttributes::parse_all
    parsed,         \* result of fields.rs CacheAttributes::parse_all(input)
    parsed_keys     \* result of attributes.rs CacheAttributes::parse_all(input)

vars == <<ast, bullet_stream, pc, expansion, self, old, differences, compared,
          input, parsed, parsed_keys>>

\* ---------------------------------------------------------------- bounds
\* Largest number of fields of a record declaration.
MaxFields == 2
\* Largest number of entries of one #[cache_diff(...)] list given to parse_all.
MaxEntries == 2

\* ---------------------------------------------------------------- helpers
None == <<>>
Some(x) == <<x>>
IsSome(o) == Len(o) = 1
Unwrap(o) == o[1]

Ok(v) == [ok |-> TRUE, value |-> v, error |-> <<>>]
Err(msg) == [ok |-> FALSE, value |-> <<>>, error |-> msg]

\* Sequences over S of length 0..n.
SeqsUpTo(S, n) == UNION {[1..k -> S] : k \in 0..n}

\* Whether the message (a sequence of text pieces) has piece among them.
Contains(msg, piece) == \E i \in 1..Len(msg) : msg[i] = piece

\* Whether string s starts with string p.
StartsWith(s, p) == Len(p) <= Len(s) /\ SubSeq(s, 1, Len(p)) = p

\* ---------------------------------------------------------------- strings
s_ruby_version == <<"r","u","b","y","_","v","e","r","s","i","o","n">>
s_modified_by == <<"_","m","o","d","i","f","i","e","d","_","b","y">>
s_path == <<"p","a","t","h">>
s_Ruby_version == <<"R","u","b","y"," ","v","e","r","s","i","o","n">>
s_ruby_version_spaced == <<"r","u","b","y"," ","v","e","r","s","i","o","n">>
s_cache_key == <<"c","a","c","h","e","_","k","e","y">>
s_A == <<"A">>
s_B == <<"B">>
s_bar == <<"b","a","r">>
s_custom == <<"c","u","s","t","o","m"," ">>
v_330 == <<"3",".","3",".","0">>
v_340 == <<"3",".","4",".","0">>
v_tmp == <<"/","t","m","p">>
v_tmp2 == <<"/","t","m","p","2">>

\* The character U+0060 (a string literal of the module cannot hold it).
BACKTICK == "<backtick>"

\* syn::Path values used as display functions.
p_path_display == <<"std", "path", "Path", "display">>
p_identity == <<"std", "convert", "identity">>
p_my_display == <<"my_display">>
p_my_function == <<"my_function">>

\* ---------------------------------------------------------------- input syntax
\* The value part of one key = value entry (absent for a bare key).
NoVal == [kind |-> "None", lit |-> <<>>, path |-> <<>>]
LitStr(s) == [kind |-> "LitStr", lit |-> s, path |-> <<>>]
PathVal(p) == [kind |-> "Path", lit |-> <<>>, path |-> p]

E_rename(s) == [key |-> "rename", val |-> LitStr(s)]
E_display(p) == [key |-> "display", val |-> PathVal(p)]
E_ignore == [key |-> "ignore", val |-> NoVal]
E_foo == [key |-> "foo", val |-> LitStr(s_bar)]
\* malformed entries: rename given a path, ignore given a value
E_rename_path == [key |-> "rename", val |-> PathVal(p_my_display)]
E_ignore_value == [key |-> "ignore", val |-> LitStr(s_bar)]

\* #[cache_diff(e1, e2, ...)], #[cache_diff], #[cache_diff = "..."], #[allow(dead_code)]
cache_diff_attr(entries) == [path |-> "cache_diff", meta |-> "List", entries |-> entries]
cache_diff_bare == [path |-> "cache_diff", meta |-> "Path", entries |-> <<>>]
cache_diff_name_value == [path |-> "cache_diff", meta |-> "NameValue", entries |-> <<>>]
allow_attr == [path |-> "allow", meta |-> "List", entries |-> <<>>]

\* ---------------------------------------------------------------- CacheAttributes
CacheAttributes_default == [rename |-> None, display |-> None, ignore |-> None]

\* Error texts, as the pieces format! concatenates.
unknown_attribute(name_str) == <<"Unknown attribute: ", name_str>>

\* impl Parse for CacheAttributes (fields.rs): one entry of the list.
parse(entry) ==
    CASE entry.key = "rename" ->
            IF entry.val.kind = "None" THEN Err(<<"expected ", BACKTICK, "=", BACKTICK>>)
            ELSE IF entry.val.kind # "LitStr" THEN Err(<<"expected string literal">>)
            ELSE Ok([CacheAttributes_default EXCEPT !.rename = Some(entry.val.lit)])
      [] entry.key = "display" ->
            IF entry.val.kind = "None" THEN Err(<<"expected ", BACKTICK, "=", BACKTICK>>)
            ELSE IF entry.val.kind # "Path" THEN Err(<<"expected identifier">>)
            ELSE Ok([CacheAttributes_default EXCEPT !.display = Some(entry.val.path)])
      [] entry.key = "ignore" ->
            Ok([CacheAttributes_default EXCEPT !.ignore = Some("unit")])
      [] OTHER -> Err(unknown_attribute(entry.key))

\* enum Key, in declaration order (Key::iter).
Key == <<"rename", "display", "ignore">>
Key_from_str(s) == \E i \in 1..Len(Key) : Key[i] = s

RECURSIVE join(_, _)
\* Vec<String>::join: the items separated by sep.
join(items, sep) ==
    IF Len(items) = 0 THEN <<>>
    ELSE IF Len(items) = 1 THEN items[1]
    ELSE items[1] \o <<sep>> \o join(Tail(items), sep)

unknown_cache_diff_attribute(name_str) ==
    <<"Unknown cache_diff attribute: ", BACKTICK, name_str, BACKTICK, ". Must be one of ">>
        \o join([i \in 1..Len(Key) |-> <<BACKTICK, Key[i], BACKTICK>>], ", ")

\* impl Parse for CacheAttributes (attributes.rs): one entry of the list.
attributes_parse(entry) ==
    IF ~Key_from_str(entry.key) THEN Err(unknown_cache_diff_attribute(entry.key))
    ELSE CASE entry.key = "rename" ->
                IF entry.val.kind = "None" THEN Err(<<"expected ", BACKTICK, "=", BACKTICK>>)
                ELSE IF entry.val.kind # "LitStr" THEN Err(<<"expected string literal">>)
                ELSE Ok([CacheAttributes_default EXCEPT !.rename = Some(entry.val.lit)])
           [] entry.key = "display" ->
                IF entry.val.kind = "None" THEN Err(<<"expected ", BACKTICK, "=", BACKTICK>>)
                ELSE IF entry.val.kind # "Path" THEN Err(<<"expected identifier">>)
                ELSE Ok([CacheAttributes_default EXCEPT !.display = Some(entry.val.path)])
           [] OTHER ->
                Ok([CacheAttributes_default EXCEPT !.ignore = Some("unit")])

\* Whether parsing the entry leaves tokens unread before the next comma: a
\* bare key (ignore) followed by a value.
leaves_value_unread(entry) == entry.key = "ignore" /\ entry.val.kind # "None"

RECURSIVE parse_terminated(_)
\* Punctuated::<CacheAttributes, Token![,]>::parse_terminated over fields.rs
\* parse: the entries left to right, stopping at the first error; tokens left
\* unread by an entry fail at the missing comma.
parse_terminated(entries) ==
    IF Len(entries) = 0 THEN Ok(<<>>)
    ELSE LET r == parse(entries[1]) IN
         IF ~r.ok THEN r
         ELSE IF leaves_value_unread(entries[1])
              THEN Err(<<"expected ", BACKTICK, ",", BACKTICK>>)
         ELSE LET rest == parse_terminated(Tail(entries)) IN
              IF ~rest.ok THEN rest ELSE Ok(<<r.value>> \o rest.value)

RECURSIVE attributes_parse_terminated(_)
\* The same over attributes.rs parse.
attributes_parse_terminated(entries) ==
    IF Len(entries) = 0 THEN Ok(<<>>)
    ELSE LET r == attributes_parse(entries[1]) IN
         IF ~r.ok THEN r
         ELSE IF leaves_value_unread(entries[1])
              THEN Err(<<"expected ", BACKTICK, ",", BACKTICK>>)
         ELSE LET rest == attributes_parse_terminated(Tail(entries)) IN
              IF ~rest.ok THEN rest ELSE Ok(<<r.value>> \o rest.value)

RECURSIVE merge_last_first(_, _)
\* mutant of merge: a key already set is kept (first occurrence wins)
merge_last_first(attribute, attrs) ==
    IF Len(attrs) = 0 THEN attribute
    ELSE LET attr == attrs[1] IN
         merge_last_first(
             [rename |-> IF IsSome(attr.rename) /\ ~IsSome(attribute.rename)
                         THEN attr.rename ELSE attribute.rename,
              display |-> IF IsSome(attr.display) /\ ~IsSome(attribute.display)
                          THEN attr.display ELSE attribute.display,
              ignore |-> IF IsSome(attr.ignore) THEN attr.ignore ELSE attribute.ignore],
             Tail(attrs))

RECURSIVE merge(_, _)
\* The for-loop of parse_all: each Some field overwrites.
merge(attribute, attrs) ==
    IF Len(attrs) = 0 THEN attribute
    ELSE LET attr == attrs[1] IN
         merge([rename |-> IF IsSome(attr.rename) THEN attr.rename ELSE attribute.rename,
                display |-> IF IsSome(attr.display) THEN attr.display ELSE attribute.display,
                ignore |-> IF IsSome(attr.ignore) THEN attr.ignore ELSE attribute.ignore],
               Tail(attrs))

\* CacheAttributes::parse_all (fields.rs)
parse_all(attr_input) ==
    IF attr_input.meta = "List"
    THEN LET r == parse_terminated(attr_input.entries) IN
         IF ~r.ok THEN r ELSE Ok(merge(CacheAttributes_default, r.value))
    ELSE Err(<<"Expected a list of attributes">>)

\* CacheAttributes::parse_all (attributes.rs)
attributes_parse_all(attr_input) ==
    IF attr_input.meta = "List"
    THEN LET r == attributes_parse_terminated(attr_input.entries) IN
         IF ~r.ok THEN r ELSE Ok(merge(CacheAttributes_default, r.value))
    ELSE Err(<<"Expected a list of attributes">>)

\* ---------------------------------------------------------------- field plan
\* mutant of extract_attribute_from_field: the last matching attribute
extract_last_attribute(f, name) ==
    LET hits == {i \in 1..Len(f.attrs) : f.attrs[i].path = name} IN
    IF hits = {} THEN None
    ELSE Some(f.attrs[CHOOSE i \in hits : \A j \in hits : i >= j])

\* The first attribute of the field whose path is name (Iterator::find).
extract_attribute_from_field(f, name) ==
    LET hits == {i \in 1..Len(f.attrs) : f.attrs[i].path = name} IN
    IF hits = {} THEN None
    ELSE Some(f.attrs[CHOOSE i \in hits : \A j \in hits : i <= j])

\* mutant of is_pathbuf: the generic arguments are not looked at
is_pathbuf_any_arguments(ty) ==
    /\ ty.kind = "Path"
    /\ Len(ty.segments) > 0
    /\ ty.segments[Len(ty.segments)] = "PathBuf"

is_pathbuf(ty) ==
    /\ ty.kind = "Path"
    /\ Len(ty.segments) > 0
    /\ ty.segments[Len(ty.segments)] = "PathBuf"
    /\ ty.arguments = "None"

\* mutant of str_replace: only the first match is replaced (str::replacen(.., 1))
str_replace_first(s, from, to) ==
    [i \in 1..Len(s) |->
        IF s[i] = from /\ \A j \in 1..(i - 1) : s[j] # from THEN to ELSE s[i]]

\* str::replace for a one-character pattern.
str_replace(s, from, to) == [i \in 1..Len(s) |-> IF s[i] = from THEN to ELSE s[i]]

\* attributes of the loop body: the parsed first cache_diff attribute, or the
\* default when the field has none.
field_attributes(f) ==
    LET a == extract_attribute_from_field(f, "cache_diff") IN
    IF IsSome(a) THEN parse_all(Unwrap(a)) ELSE Ok(CacheAttributes_default)

\* name of the loop body.
display_name(attributes, field_name) ==
    LET name == IF IsSome(attributes.rename)
                THEN Unwrap(attributes.rename)
                ELSE Unwrap(field_name) IN
    str_replace(name, "_", " ")

\* display of the loop body.
display_fn(attributes, ty) ==
    IF IsSome(attributes.display) THEN Unwrap(attributes.display)
    ELSE IF is_pathbuf(ty) THEN p_path_display
    ELSE p_identity

\* mutant of is_compared: every field is compared
is_compared_always(attributes) == TRUE

\* Whether the loop body pushes a comparison for the field.
is_compared(attributes) == ~IsSome(attributes.ignore)

RECURSIVE comparisons_of(_)
\* The loop over the named fields: the comparisons pushed, or the first error.
comparisons_of(fields) ==
    IF Len(fields) = 0 THEN Ok(<<>>)
    ELSE LET f == fields[1]
             r == field_attributes(f) IN
         IF ~r.ok THEN r
         ELSE LET attributes == r.value
                  c == [field_name |-> Unwrap(f.ident),
                        name |-> display_name(attributes, f.ident),
                        display |-> display_fn(attributes, f.ty)]
                  rest == comparisons_of(Tail(fields)) IN
              IF ~rest.ok THEN rest
              ELSE Ok((IF is_compared(attributes) THEN <<c>> ELSE <<>>) \o rest.value)

Impl(comparisons) == [kind |-> "Impl", comparisons |-> comparisons, message |-> <<>>]
SynError(msg) == [kind |-> "Err", comparisons |-> <<>>, message |-> msg]
CompileError(msg) == [kind |-> "CompileError", comparisons |-> <<>>, message |-> msg]
Panic(msg) == [kind |-> "Panic", comparisons |-> <<>>, message |-> msg]
NotExpanded == [kind |-> "None", comparisons |-> <<>>, message |-> <<>>]

\* create_cache_diff: Ok(impl), Err(error), or a panic of the macro.
create_cache_diff(item) ==
    IF item.data = "Struct" /\ item.fields = "Named"
    THEN LET r == comparisons_of(item.named) IN
         IF r.ok THEN Impl(r.value) ELSE SynError(r.error)
    ELSE Panic(<<"not implemented: ", "Only implemented for structs">>)

\* #[proc_macro_derive(CacheDiff)] cache_diff: an Err becomes a compile_error!
\* carrying the error's text; a panic of create_cache_diff is not caught.
cache_diff_expand(item) ==
    LET r == create_cache_diff(item) IN
    IF r.kind = "Err" THEN CompileError(r.message) ELSE r

\* ---------------------------------------------------------------- generated diff
\* bullet_stream::style::value: the text in ANSI colour, between backticks.
style_value(value) == <<BACKTICK, "<ansi-color>">> \o value \o <<"<ansi-reset>", BACKTICK>>

\* CacheDiff::fmt_value, per build feature.
fmt_value(value) ==
    IF bullet_stream THEN style_value(value) ELSE <<BACKTICK>> \o value \o <<BACKTICK>>

\* The text format! shows for display(&value): identity shows the value's own
\* Display text, Path::display the path's text, the user functions
\* my_display (usage/src/main.rs) and my_function (crate docs) "custom " + text.
apply_display(display, value) ==
    IF display = p_my_display \/ display = p_my_function THEN s_custom \o value
    ELSE value

\* The format! of one comparison.
difference_message(c, current, previous) ==
    c.name \o <<" ", "(", BACKTICK>> \o apply_display(c.display, previous[c.field_name])
           \o <<BACKTICK, " ", "t", "o", " ", BACKTICK>>
           \o apply_display(c.display, current[c.field_name]) \o <<BACKTICK, ")">>

\* mutant of field_differs: the test is ==
field_differs_inverted(c, current, previous) ==
    current[c.field_name] = previous[c.field_name]

\* The test of one comparison: self.field != old.field.
field_differs(c, current, previous) == current[c.field_name] # previous[c.field_name]

RECURSIVE run_comparisons_until_first(_, _, _, _)
\* mutant of run_comparisons: return at the first difference
run_comparisons_until_first(comparisons, current, previous, acc) ==
    IF Len(comparisons) = 0 THEN acc
    ELSE LET c == comparisons[1] IN
         IF field_differs(c, current, previous)
         THEN [differences |-> Append(acc.differences,
                                      difference_message(c, current, previous)),
               compared |-> Append(acc.compared, c.field_name)]
         ELSE run_comparisons_until_first(Tail(comparisons), current, previous,
                  [differences |-> acc.differences,
                   compared |-> Append(acc.compared, c.field_name)])

RECURSIVE run_comparisons(_, _, _, _)
\* The body of the generated diff: the comparisons, one after the other.
run_comparisons(comparisons, current, previous, acc) ==
    IF Len(comparisons) = 0 THEN acc
    ELSE LET c == comparisons[1] IN
         run_comparisons(Tail(comparisons), current, previous,
             [differences |-> IF field_differs(c, current, previous)
                              THEN Append(acc.differences,
                                          difference_message(c, current, previous))
                              ELSE acc.differences,
              compared |-> Append(acc.compared, c.field_name)])

\* ---------------------------------------------------------------- inputs
ty_String == [kind |-> "Path", segments |-> <<"String">>, arguments |-> "None"]
ty_PathBuf == [kind |-> "Path", segments |-> <<"std", "path", "PathBuf">>, arguments |-> "None"]
ty_PathBuf_generic == [kind |-> "Path", segments |-> <<"PathBuf">>, arguments |-> "AngleBracketed"]
ty_ref_PathBuf == [kind |-> "Reference", segments |-> <<>>, arguments |-> "None"]

Decl(ty, attrs) == [ty |-> ty, attrs |-> attrs]

\* Field declarations (type and attributes) a record is built from.
FieldDecls ==
    { Decl(ty_String, <<>>),
      Decl(ty_PathBuf, <<>>),
      Decl(ty_PathBuf_generic, <<>>),
      Decl(ty_ref_PathBuf, <<>>),
      Decl(ty_String, <<cache_diff_attr(<<E_ignore>>), allow_attr>>),
      Decl(ty_String, <<cache_diff_attr(<<E_rename(s_Ruby_version)>>)>>),
      Decl(ty_String, <<cache_diff_attr(<<E_rename(s_cache_key)>>)>>),
      Decl(ty_String, <<cache_diff_attr(<<E_rename(s_A), E_rename(s_B)>>)>>),
      Decl(ty_String, <<cache_diff_attr(<<E_display(p_my_display)>>)>>),
      Decl(ty_String, <<cache_diff_attr(<<E_rename(s_Ruby_version), E_display(p_my_display)>>)>>),
      Decl(ty_String, <<cache_diff_attr(<<E_ignore, E_rename(s_A), E_display(p_my_display)>>)>>),
      Decl(ty_PathBuf, <<cache_diff_attr(<<E_display(p_my_function)>>)>>),
      Decl(ty_String, <<cache_diff_attr(<<E_foo>>)>>),
      Decl(ty_String, <<cache_diff_attr(<<E_rename(s_A)>>), cache_diff_attr(<<E_ignore>>)>>),
      Decl(ty_String, <<allow_attr, cache_diff_attr(<<>>), cache_diff_attr(<<E_foo>>)>>) }

\* Identifier of the i-th named field.
FieldIdents == <<s_ruby_version, s_modified_by, s_path, s_cache_key>>

NamedField(i, d) == [ident |-> Some(FieldIdents[i]), ty |-> d.ty, attrs |-> d.attrs]
UnnamedField(d) == [ident |-> None, ty |-> d.ty, attrs |-> d.attrs]

NamedStruct(decls) ==
    [data |-> "Struct", fields |-> "Named",
     named |-> [i \in 1..Len(decls) |-> NamedField(i, decls[i])]]
TupleStruct(decls) ==
    [data |-> "Struct", fields |-> "Unnamed",
     named |-> [i \in 1..Len(decls) |-> UnnamedField(decls[i])]]
UnitStruct == [data |-> "Struct", fields |-> "Unit", named |-> <<>>]
Enum == [data |-> "Enum", fields |-> "Unit", named |-> <<>>]

\* The declarations #[derive(CacheDiff)] is applied to.
Asts ==
    {NamedStruct(ds) : ds \in SeqsUpTo(FieldDecls, MaxFields)}
        \cup {TupleStruct(ds) : ds \in SeqsUpTo({Decl(ty_String, <<>>)}, MaxFields)}
        \cup {UnitStruct, Enum}

\* Values a field of type ty takes.
Values(ty) ==
    IF ty.kind = "Path" /\ ty.segments[Len(ty.segments)] = "PathBuf"
    THEN {v_tmp, v_tmp2} ELSE {v_330, v_340}

\* Instances of the record: one value per field, by field identifier.
Instances(a) ==
    LET n == Len(a.named)
        id(i) == Unwrap(a.named[i].ident)
        ids == {id(i) : i \in 1..n} IN
    {x \in [ids -> {v_tmp, v_tmp2, v_330, v_340}] :
        \A i \in 1..n : x[id(i)] \in Values(a.named[i].ty)}

NotRun == Err(<<"not run">>)
NoInput == cache_diff_bare

\* Entries and attributes CacheAttributes::parse_all is applied to.
Entries ==
    {E_rename(s_A), E_rename(s_B), E_display(p_my_display), E_display(p_my_function),
     E_ignore, E_foo, E_rename_path, E_ignore_value}
Attributes ==
    {cache_diff_attr(es) : es \in SeqsUpTo(Entries, MaxEntries)}
        \cup {cache_diff_bare, cache_diff_name_value}

\* ---------------------------------------------------------------- derive and diff
Init ==
    /\ ast \in Asts
    /\ bullet_stream \in BOOLEAN
    /\ pc = "declared"
    /\ expansion = NotExpanded
    /\ self = <<>>
    /\ old = <<>>
    /\ differences = <<>>
    /\ compared = <<>>
    /\ input = NoInput
    /\ parsed = NotRun
    /\ parsed_keys = NotRun

\* The compiler expands #[derive(CacheDiff)] on the declaration.
cache_diff ==
    /\ pc = "declared"
    /\ expansion' = cache_diff_expand(ast)
    /\ pc' = "expanded"
    /\ UNCHANGED <<ast, bullet_stream, self, old, differences, compared,
                   input, parsed, parsed_keys>>

\* A call current.diff(&previous) of the generated impl. The routine reads
\* nothing but its two arguments, so one call per pair covers every call.
diff ==
    /\ pc = "expanded"
    /\ expansion.kind = "Impl"
    /\ \E current \in Instances(ast), previous \in Instances(ast) :
          LET r == run_comparisons(expansion.comparisons, current, previous,
                                   [differences |-> <<>>, compared |-> <<>>]) IN
          /\ self' = current
          /\ old' = previous
          /\ differences' = r.differences
          /\ compared' = r.compared
    /\ pc' = "called"
    /\ UNCHANGED <<ast, bullet_stream, expansion, input, parsed, parsed_keys>>

Next == cache_diff \/ diff

Spec == Init /\ [][Next]_vars

\* ---------------------------------------------------------------- parse_all alone
ParseInit ==
    /\ ast = UnitStruct
    /\ bullet_stream = FALSE
    /\ pc = "parse"
    /\ expansion = NotExpanded
    /\ self = <<>>
    /\ old = <<>>
    /\ differences = <<>>
    /\ compared = <<>>
    /\ input \in Attributes
    /\ parsed = NotRun
    /\ parsed_keys = NotRun

\* fields.rs CacheAttributes::parse_all(&input)
call_parse_all ==
    /\ pc = "parse"
    /\ parsed = NotRun
    /\ parsed' = parse_all(input)
    /\ UNCHANGED <<ast, bullet_stream, pc, expansion, self, old, differences,
                   compared, input, parsed_keys>>

\* attributes.rs CacheAttributes::parse_all(&input)
call_attributes_parse_all ==
    /\ pc = "parse"
    /\ parsed_keys = NotRun
    /\ parsed_keys' = attributes_parse_all(input)
    /\ UNCHANGED <<ast, bullet_stream, pc, expansion, self, old, differences,
                   compared, input, parsed>>

ParseNext == call_parse_all \/ call_attributes_parse_all

ParseSpec == ParseInit /\ [][ParseNext]_vars

\* ---------------------------------------------------------------- reading the declaration
\* What the properties below say about a field is read off the declaration
\* itself: its annotation block is its first cache_diff attribute.
Block(f) ==
    LET hits == {i \in 1..Len(f.attrs) : f.attrs[i].path = "cache_diff"} IN
    IF hits = {} THEN <<>>
    ELSE f.attrs[CHOOSE i \in hits : \A j \in hits : i <= j].entries

HasKey(f, k) == \E i \in 1..Len(Block(f)) : Block(f)[i].key = k

\* The value of the last entry of the block with key k.
LastVal(f, k) ==
    LET b == Block(f)
        at == {i \in 1..Len(b) : b[i].key = k} IN
    b[CHOOSE i \in at : \A j \in at : j <= i].val

IgnoredField(f) == HasKey(f, "ignore")
PlannedFields == SelectSeq(ast.named, LAMBDA f : ~IgnoredField(f))
FieldOf(c) == CHOOSE f \in {ast.named[i] : i \in 1..Len(ast.named)} : f.ident = Some(c.field_name)
Generated == pc \in {"expanded", "called"} /\ expansion.kind = "Impl"
Called == pc = "called"
Differs(ident) == self[ident] # old[ident]
DifferingComparisons == SelectSeq(expansion.comparisons, LAMBDA c : Differs(c.field_name))
DifferingPlanned == SelectSeq(PlannedFields, LAMBDA f : Differs(Unwrap(f.ident)))
OwnedPathType(ty) ==
    ty.kind = "Path" /\ ty.segments # <<>> /\ ty.segments[Len(ty.segments)] = "PathBuf"
        /\ ty.arguments = "None"

\* ---------------------------------------------------------------- C1
\* C1: a diff call compares every non-ignored field exactly once, in
\* declaration order, whatever differs, and returns one message per differing
\* non-ignored field, in declaration order (so n messages when all n differ).
C1_OrderPreservation ==
    Called =>
        /\ compared = [i \in 1..Len(PlannedFields) |-> Unwrap(PlannedFields[i].ident)]
        /\ Len(differences) = Len(DifferingPlanned)
        /\ \A k \in 1..Len(differences) :
              \E c \in {expansion.comparisons[i] : i \in 1..Len(expansion.comparisons)} :
                 /\ c.field_name = Unwrap(DifferingPlanned[k].ident)
                 /\ StartsWith(differences[k], c.name \o <<" ", "(">>)

\* Two fields, none ignored, both differ, and the two messages name them in order.
C1_Witness ==
    /\ Called
    /\ Len(ast.named) = 2
    /\ \A i \in 1..2 : ~IgnoredField(ast.named[i]) /\ Differs(Unwrap(ast.named[i].ident))
    /\ Len(differences) = 2
    /\ StartsWith(differences[1], <<"r", "u", "b", "y", " ">>)
    /\ StartsWith(differences[2], <<" ", "m", "o", "d">>)

\* ---------------------------------------------------------------- C2
\* C2: a field annotated ignore is never compared and never adds a message,
\* whether or not rename or display stand beside ignore.
C2_IgnoreCorrectness ==
    Called =>
        /\ \A i \in 1..Len(ast.named) :
              IgnoredField(ast.named[i]) =>
                  ~\E j \in 1..Len(compared) : compared[j] = Unwrap(ast.named[i].ident)
        /\ Len(differences) = Len(DifferingPlanned)

\* The only field carries ignore, rename and display, its value differs, and
\* the diff is empty.
C2_Witness ==
    /\ Called
    /\ Len(ast.named) = 1
    /\ IgnoredField(ast.named[1])
    /\ HasKey(ast.named[1], "rename")
    /\ HasKey(ast.named[1], "display")
    /\ Differs(Unwrap(ast.named[1].ident))
    /\ differences = <<>>

\* ---------------------------------------------------------------- C3
\* C3: diff(x, x) is empty.
C3_EmptyDiff == (Called /\ self = old) => differences = <<>>

\* diff(x, x) on a record with two compared fields.
C3_Witness ==
    /\ Called
    /\ self = old
    /\ Len(compared) = 2
    /\ differences = <<>>

\* ---------------------------------------------------------------- C4
\* C4: the message of a differing field is name, " (", fmt_value of the
\* displayed previous value, " to ", fmt_value of the displayed current
\* value, ")".
C4_MessageFormat ==
    Called =>
        /\ Len(differences) = Len(DifferingComparisons)
        /\ \A k \in 1..Len(differences) :
              LET c == DifferingComparisons[k] IN
              differences[k] =
                  c.name \o <<" ", "(">>
                         \o fmt_value(apply_display(c.display, old[c.field_name]))
                         \o <<" ", "t", "o", " ">>
                         \o fmt_value(apply_display(c.display, self[c.field_name]))
                         \o <<")">>

\* ---------------------------------------------------------------- C5
\* C5: a compared field annotated rename = X has display name X, unchanged.
C5_RenameVerbatim ==
    Generated =>
        \A i \in 1..Len(expansion.comparisons) :
            LET c == expansion.comparisons[i] IN
            HasKey(FieldOf(c), "rename") => c.name = LastVal(FieldOf(c), "rename").lit

\* ---------------------------------------------------------------- C6
\* C6: a compared field without rename has as display name its identifier
\* with every underscore replaced by one space, and its message starts with it.
C6_DefaultName ==
    /\ Generated =>
          \A i \in 1..Len(expansion.comparisons) :
              LET c == expansion.comparisons[i] IN
              ~HasKey(FieldOf(c), "rename") =>
                  /\ Len(c.name) = Len(c.field_name)
                  /\ \A j \in 1..Len(c.name) :
                        c.name[j] = IF c.field_name[j] = "_" THEN " " ELSE c.field_name[j]
    /\ (Generated /\ Called) =>
          \A k \in 1..Len(DifferingPlanned) :
              LET f == DifferingPlanned[k] IN
              (~HasKey(f, "rename") /\ f.ident = Some(s_ruby_version) /\ k <= Len(differences))
                  => StartsWith(differences[k], s_ruby_version_spaced \o <<" ", "(">>)

\* An unannotated field ruby_version differs and its message starts "ruby version (";
\* a second unannotated field _modified_by is planned as " modified by".
C6_Witness ==
    /\ Called
    /\ Len(ast.named) = 2
    /\ ast.named[1].attrs = <<>>
    /\ ast.named[2].attrs = <<>>
    /\ Len(differences) >= 1
    /\ StartsWith(differences[1], s_ruby_version_spaced \o <<" ", "(">>)
    /\ expansion.comparisons[2].name = <<" ","m","o","d","i","f","i","e","d"," ","b","y">>

\* ---------------------------------------------------------------- C7
\* C7: the display function of a compared field is the explicit display when
\* one is given; otherwise the path formatter exactly when the type is PathBuf
\* without generic arguments; otherwise identity.
C7_DisplayResolution ==
    Generated =>
        \A i \in 1..Len(expansion.comparisons) :
            LET c == expansion.comparisons[i]
                f == FieldOf(c) IN
            /\ HasKey(f, "display") => c.display = LastVal(f, "display").path
            /\ (~HasKey(f, "display") /\ OwnedPathType(f.ty)) => c.display = p_path_display
            /\ (~HasKey(f, "display") /\ ~OwnedPathType(f.ty)) => c.display = p_identity

\* A PathBuf field gets the path formatter and a PathBuf<T> field identity.
C7_Witness ==
    /\ Generated
    /\ Len(expansion.comparisons) = 2
    /\ ast.named[1].ty = ty_PathBuf
    /\ ast.named[1].attrs = <<>>
    /\ expansion.comparisons[1].display = p_path_display
    /\ ast.named[2].ty = ty_PathBuf_generic
    /\ expansion.comparisons[2].display = p_identity

\* ---------------------------------------------------------------- C8
\* C8: a record with an annotation block holding a key outside rename, display,
\* ignore expands to an error whose message names rename, display and ignore.
C8_UnknownKeyRejected ==
    (pc # "declared" /\ ast.data = "Struct" /\ ast.fields = "Named"
        /\ \E i \in 1..Len(ast.named) :
              \E j \in 1..Len(Block(ast.named[i])) :
                  Block(ast.named[i])[j].key \notin {"rename", "display", "ignore"})
    => /\ expansion.kind = "CompileError"
       /\ Contains(expansion.message, "rename")
       /\ Contains(expansion.message, "display")
       /\ Contains(expansion.message, "ignore")

\* ---------------------------------------------------------------- C9
\* C9: a record with no fields, in whatever shape it is declared, or with only
\* ignored fields, expands to an impl whose diff is always empty.
C9_ZeroFieldRecord ==
    (pc # "declared" /\ ast.data = "Struct"
        /\ \/ Len(ast.named) = 0
           \/ ast.fields = "Named" /\ \A i \in 1..Len(ast.named) : IgnoredField(ast.named[i]))
    => /\ expansion.kind = "Impl"
       /\ Called => differences = <<>>

\* ---------------------------------------------------------------- C10
\* An entry parse_all accepts: a known key with the kind of value it takes.
WellFormed(e) ==
    \/ e.key = "rename" /\ e.val.kind = "LitStr"
    \/ e.key = "display" /\ e.val.kind = "Path"
    \/ e.key = "ignore" /\ e.val.kind = "None"

\* What last-write-wins gives for the list: per key, the value of its last entry.
LastWrite(entries, r) ==
    LET at(k) == {i \in 1..Len(entries) : entries[i].key = k}
        last(k) == entries[CHOOSE i \in at(k) : \A j \in at(k) : j <= i].val IN
    /\ r.ok
    /\ r.value.rename = IF at("rename") = {} THEN None ELSE Some(last("rename").lit)
    /\ r.value.display = IF at("display") = {} THEN None ELSE Some(last("display").path)
    /\ IsSome(r.value.ignore) <=> at("ignore") # {}

\* C10: a list of well-formed entries parses, repeated keys or not, and each
\* key resolves to its last occurrence; rename = A, rename = B names the field B.
C10_DuplicateLastWrite ==
    (input.meta = "List" /\ \A i \in 1..Len(input.entries) : WellFormed(input.entries[i]))
    => /\ parsed # NotRun => LastWrite(input.entries, parsed)
       /\ parsed_keys # NotRun => LastWrite(input.entries, parsed_keys)
       /\ (parsed # NotRun /\ input.entries = <<E_rename(s_A), E_rename(s_B)>>)
             => display_name(parsed.value, Some(s_path)) = s_B

\* rename = A, rename = B was parsed and resolved to B.
C10_Witness ==
    /\ input.entries = <<E_rename(s_A), E_rename(s_B)>>
    /\ parsed.ok
    /\ parsed.value.rename = Some(s_B)
    /\ parsed_keys.ok
    /\ parsed_keys.value.rename = Some(s_B)

\* ---------------------------------------------------------------- C11
\* C11: a record with a positional field makes the expansion end in an error
\* value handed back to the compiler (a compile_error!), never in a panic of
\* the macro, and no impl is emitted.
C11_PositionalRejectedAsError ==
    (pc # "declared" /\ ast.data = "Struct"
        /\ \E i \in 1..Len(ast.named) : ast.named[i].ident = None)
    => /\ expansion.kind = "CompileError"
       /\ expansion.comparisons = <<>>

\* ---------------------------------------------------------------- C12
\* Number of cache_diff attributes the field carries.
BlockCount(f) == Cardinality({i \in 1..Len(f.attrs) : f.attrs[i].path = "cache_diff"})

\* C12: only the first cache_diff attribute of a field counts. Later ones are
\* not validated (the expansion fails only for a bad entry in a first block)
\* and not merged (whether a field with several blocks is compared, its name
\* and its display function are those of the first block alone).
C12_FirstBlockOnly ==
    (pc # "declared" /\ ast.data = "Struct" /\ ast.fields = "Named") =>
        /\ (\A i \in 1..Len(ast.named) :
               \A j \in 1..Len(Block(ast.named[i])) : WellFormed(Block(ast.named[i])[j]))
           => expansion.kind = "Impl"
        /\ expansion.kind = "Impl" =>
              \A i \in 1..Len(ast.named) :
                  LET f == ast.named[i]
                      cs == {expansion.comparisons[k] : k \in 1..Len(expansion.comparisons)}
                      mine == {c \in cs : Some(c.field_name) = f.ident}
                      base == IF HasKey(f, "rename") THEN LastVal(f, "rename").lit
                              ELSE Unwrap(f.ident) IN
                  BlockCount(f) >= 2 =>
                      /\ (mine # {}) <=> ~HasKey(f, "ignore")
                      /\ \A c \in mine :
                            /\ Len(c.name) = Len(base)
                            /\ \A j \in 1..Len(base) :
                                  c.name[j] = IF base[j] = "_" THEN " " ELSE base[j]
                            /\ HasKey(f, "display") => c.display = LastVal(f, "display").path
                            /\ ~HasKey(f, "display") => c.display \in {p_path_display, p_identity}

\* The first field has rename = A in its first block and ignore in its second,
\* the second field an empty first block and an unknown key in its second:
\* the impl is generated, both fields are compared and the first is named A.
C12_Witness ==
    /\ Called
    /\ Len(ast.named) = 2
    /\ ast.named[1].attrs = <<cache_diff_attr(<<E_rename(s_A)>>), cache_diff_attr(<<E_ignore>>)>>
    /\ ast.named[2].attrs = <<allow_attr, cache_diff_attr(<<>>), cache_diff_attr(<<E_foo>>)>>
    /\ Differs(Unwrap(ast.named[1].ident))
    /\ Differs(Unwrap(ast.named[2].ident))
    /\ Len(differences) = 2
    /\ StartsWith(differences[1], s_A \o <<" ", "(">>)

====
